---- MODULE Spec2Model ----
(***************************************************************************)
(* Model of the GC-MS report pipeline of app.py: the name normalizer       *)
(* clean_compound_name, the report parser parse_report_file, the corpus    *)
(* assembly of the main analysis block and the session state driven by the *)
(* Analyze / Clear Data buttons.                                           *)
(*                                                                         *)
(* A Python str is modelled as a sequence of one-character strings, so     *)
(* that strip, split, the regular expressions and title() are computed     *)
(* character by character.                                                 *)
(***************************************************************************)
EXTENDS Integers, Sequences, FiniteSets, TLC

VARIABLES
    \* the normalizer on its own
    name,                 \* clean_compound_name: the argument
    cleaned,              \* clean_compound_name(name)
    recleaned,            \* clean_compound_name(cleaned)
    npc,                  \* "in" -> "once" -> "twice"
    \* the parser on its own
    report,               \* parse_report_file: the uploaded file
    data_peaks,           \* its local data_peaks (lines 163-171), <<>> when
                          \* the function returns before filling it
    parsed,               \* its result, a frame or None
    ppc,                  \* "in" -> "done"
    \* the Streamlit session and the outputs of the last script run
    button,               \* the button whose click started the run
    uploaded_files,       \* value of the file_uploader widget
    analysis_complete,    \* st.session_state.analysis_complete
    uploaded_files_list,  \* st.session_state.uploaded_files_list
    all_data_list,        \* line 317, <<>> when the run parsed nothing
    combined_df,          \* line 326-327, None when no corpus was built
    base_analysis_df,     \* line 328
    view,                 \* what the main area shows
    notice                \* the sidebar message of the run

nvars == <<name, cleaned, recleaned, npc>>
pvars == <<report, data_peaks, parsed, ppc>>
svars == <<button, uploaded_files, analysis_complete, uploaded_files_list,
           all_data_list, combined_df, base_analysis_df, view, notice>>
vars  == <<nvars, pvars, svars>>

----------------------------------------------------------------------------
(* Bounds *)

\* longest argument of clean_compound_name drawn from NormAlphabet
MaxNameLen == 4
\* most lines after the Peak List header of a report
MaxPeakRows == 2
\* most lines after the Library Search header of a report
MaxLibRows == 2
\* longest upload in which the files are chosen one by one
MaxBatch == 3
\* how far beyond the limit of MaxFiles an upload goes
MaxOver == 1

----------------------------------------------------------------------------
(* Program constants *)

\* the upload limit of line 292
MaxFiles == 20

----------------------------------------------------------------------------
(* Characters *)

UpperChars == <<"A","B","C","D","E","F","G","H","I","J","K","L","M",
                "N","O","P","Q","R","S","T","U","V","W","X","Y","Z">>
LowerChars == <<"a","b","c","d","e","f","g","h","i","j","k","l","m",
                "n","o","p","q","r","s","t","u","v","w","x","y","z">>

Range(s) == {s[i] : i \in 1..Len(s)}

IsUpperChar(c) == c \in Range(UpperChars)
IsLowerChar(c) == c \in Range(LowerChars)
IsCased(c) == IsUpperChar(c) \/ IsLowerChar(c)
\* str.isdigit on one character; the superscript two is a digit for isdigit
\* but is no decimal digit for \d-with-int() or pd.to_numeric
DecimalDigits == {"0","1","2","3","4","5","6","7","8","9"}
IsDecimal(c) == c \in DecimalDigits
\* \s of re and the default of str.strip
WhiteSpace == {" ", "\t"}
IsSpace(c) == c \in WhiteSpace
\* the class [\s\-\.]
Separators == WhiteSpace \cup {"-", "."}

ToUpperChar(c) ==
    IF IsLowerChar(c)
    THEN UpperChars[CHOOSE i \in 1..Len(LowerChars) : LowerChars[i] = c]
    ELSE c
ToLowerChar(c) ==
    IF IsUpperChar(c)
    THEN LowerChars[CHOOSE i \in 1..Len(UpperChars) : UpperChars[i] = c]
    ELSE c

----------------------------------------------------------------------------
(* str helpers *)

\* last index of the run of class-C characters of s that starts at i
\* (i - 1 when s[i] is not in C)
RECURSIVE PrefixRun(_, _, _)
PrefixRun(s, i, C) ==
    IF i <= Len(s) /\ s[i] \in C THEN PrefixRun(s, i + 1, C) ELSE i - 1

\* index of the first character of the longest run in class C ending at i
RECURSIVE SuffixRun(_, _, _)
SuffixRun(s, i, C) ==
    IF i >= 1 /\ s[i] \in C THEN SuffixRun(s, i - 1, C) ELSE i + 1

Drop(s, n) == SubSeq(s, n + 1, Len(s))
Take(s, n) == SubSeq(s, 1, n)

\* str.strip(chars): every leading and trailing character of the class goes
StripClass(s, C) ==
    LET a == PrefixRun(s, 1, C)
        t == Drop(s, a)
        b == SuffixRun(t, Len(t), C)
    IN  Take(t, b - 1)

\* str.strip()
Strip(s) == StripClass(s, WhiteSpace)

\* str.startswith
StartsWith(s, p) == Len(s) >= Len(p) /\ Take(s, Len(p)) = p

----------------------------------------------------------------------------
(* Values of a DataFrame cell or of a Python variable: a str, a number    *)
(* (k = "num": n * 10^-e), or a missing value (None / NaN).                *)

Str(chars) == [k |-> "str", s |-> chars, n |-> 0, e |-> 0]
NaN        == [k |-> "nan", s |-> <<>>,  n |-> 0, e |-> 0]

----------------------------------------------------------------------------
(* clean_compound_name *)

\* the sentinel 'Unknown'
Unknown == <<"U","n","k","n","o","w","n">>

StereoChars == {"+", "-", "R", "S", "E", "Z"}
RSEZ == {"R", "S", "E", "Z"}

\* re.sub(r'^\d+[\s\-\.]+', '', s)
SubLocant(s) ==
    LET d == PrefixRun(s, 1, DecimalDigits)
        e == PrefixRun(s, d + 1, Separators)
    IN  IF d >= 1 /\ e > d THEN Drop(s, e) ELSE s

\* re.sub(r'^\([+\-RSEZ]+\)[\s\-\.]*', '', s)
SubStereo(s) ==
    IF Len(s) >= 1 /\ s[1] = "("
    THEN LET r == PrefixRun(s, 2, StereoChars)
         IN  IF r >= 2 /\ r + 1 <= Len(s) /\ s[r + 1] = ")"
             THEN Drop(s, PrefixRun(s, r + 2, Separators))
             ELSE s
    ELSE s

\* re.sub(r'^\(\d*[RSEZ][\d,RSEZ]*\)[\s\-\.]*', '', s)
SubStereoComplex(s) ==
    IF Len(s) >= 1 /\ s[1] = "("
    THEN LET d == PrefixRun(s, 2, DecimalDigits)
         IN  IF d + 1 <= Len(s) /\ s[d + 1] \in RSEZ
             THEN LET r == PrefixRun(s, d + 2, DecimalDigits \cup {","} \cup RSEZ)
                  IN  IF r + 1 <= Len(s) /\ s[r + 1] = ")"
                      THEN Drop(s, PrefixRun(s, r + 2, Separators))
                      ELSE s
             ELSE s
    ELSE s

\* re.sub(r'\s*\(\d+\)\s*$', '', s)
SubIndexSuffix(s) ==
    LET k == SuffixRun(s, Len(s), WhiteSpace) - 1
    IN  IF k >= 1 /\ s[k] = ")"
        THEN LET d == SuffixRun(s, k - 1, DecimalDigits)
             IN  IF d <= k - 1 /\ d - 1 >= 1 /\ s[d - 1] = "("
                 THEN Take(s, SuffixRun(s, d - 2, WhiteSpace) - 1)
                 ELSE s
        ELSE s

\* re.sub(r'\s+', ' ', s)
RECURSIVE CollapseSpaces(_)
CollapseSpaces(s) ==
    IF s = <<>> THEN <<>>
    ELSE IF s[1] \in WhiteSpace
         THEN <<" ">> \o CollapseSpaces(Drop(s, PrefixRun(s, 1, WhiteSpace)))
         ELSE <<s[1]>> \o CollapseSpaces(Tail(s))

\* str.isupper: no lower-case character and at least one upper-case one
IsUpper(s) ==
    /\ \E i \in 1..Len(s) : IsUpperChar(s[i])
    /\ \A i \in 1..Len(s) : ~IsLowerChar(s[i])

\* str.title: the first letter of every run of letters upper, the rest lower
Title(s) ==
    [i \in 1..Len(s) |->
        IF IsCased(s[i])
        THEN IF i > 1 /\ IsCased(s[i - 1]) THEN ToLowerChar(s[i])
             ELSE ToUpperChar(s[i])
        ELSE s[i]]

\* lines 109: name.strip().strip('"').strip("'")
StripQuotes(s) == StripClass(StripClass(Strip(s), {"\""}), {"'"})

\* lines 127-128 left out: the name keeps its case
TitleNever(s) == s

\* lines 127-128
TitleIfUpper(s) == IF IsUpper(s) /\ Len(s) > 3 THEN Title(s) ELSE s

\* lines 133-136
RejectShort(s) == IF s = <<>> \/ Len(s) < 3 THEN Unknown ELSE s

\* lines 112-118: the three prefix substitutions, each applied once, in order
StripPrefixes(s) == SubStereoComplex(SubStereo(SubLocant(s)))

clean_compound_name(v) ==
    IF v.k # "str" THEN Unknown
    ELSE RejectShort(Strip(TitleIfUpper(CollapseSpaces(
            SubIndexSuffix(StripPrefixes(StripQuotes(v.s)))))))

----------------------------------------------------------------------------
(* More str and list helpers *)

Max(S) == CHOOSE x \in S : \A y \in S : y <= x
Min(S) == CHOOSE x \in S : \A y \in S : x <= y
Min2(a, b) == IF a <= b THEN a ELSE b

\* index of the first c in s at or after i, 0 when there is none
RECURSIVE Find(_, _, _)
Find(s, i, c) ==
    IF i > Len(s) THEN 0 ELSE IF s[i] = c THEN i ELSE Find(s, i + 1, c)

\* index of the last c in s at or before i, 0 when there is none
RECURSIVE RFind(_, _, _)
RFind(s, i, c) ==
    IF i < 1 THEN 0 ELSE IF s[i] = c THEN i ELSE RFind(s, i - 1, c)

\* index of the first sep of s at or after i that is outside double quotes,
\* 0 when there is none
RECURSIVE UnquotedSepAt(_, _, _, _)
UnquotedSepAt(s, i, sep, quoted) ==
    IF i > Len(s) THEN 0
    ELSE IF s[i] = "\"" THEN UnquotedSepAt(s, i + 1, sep, ~quoted)
    ELSE IF s[i] = sep /\ ~quoted THEN i
    ELSE UnquotedSepAt(s, i + 1, sep, quoted)

\* the split of a csv reader: a separator inside a quoted field does not
\* end the field
RECURSIVE SplitCsv(_, _)
SplitCsv(s, sep) ==
    IF UnquotedSepAt(s, 1, sep, FALSE) = 0 THEN <<s>>
    ELSE <<Take(s, UnquotedSepAt(s, 1, sep, FALSE) - 1)>>
         \o SplitCsv(Drop(s, UnquotedSepAt(s, 1, sep, FALSE)), sep)

\* str.split(sep) for a one-character separator
RECURSIVE Split(_, _)
Split(s, sep) ==
    LET i == Find(s, 1, sep)
    IN  IF i = 0 THEN <<s>>
        ELSE <<Take(s, i - 1)>> \o Split(Drop(s, i), sep)

\* str.replace(c, '')
RemoveChar(s, c) == SelectSeq(s, LAMBDA x : x # c)

\* U+00B2 SUPERSCRIPT TWO, written as one character of the model: a digit
\* for str.isdigit, not a decimal digit for \d or pd.to_numeric
SuperscriptTwo == "^2"
IsDigitChars == DecimalDigits \cup {SuperscriptTwo}

\* str.isdigit
IsDigit(s) == s # <<>> /\ \A i \in 1..Len(s) : s[i] \in IsDigitChars

AllDecimal(s) == \A i \in 1..Len(s) : s[i] \in DecimalDigits

DigitVal(c) ==
    CHOOSE v \in 0..9 : <<"0","1","2","3","4","5","6","7","8","9">>[v + 1] = c

RECURSIVE IntVal(_)
IntVal(s) ==
    IF s = <<>> THEN 0
    ELSE IntVal(Take(s, Len(s) - 1)) * 10 + DigitVal(s[Len(s)])

\* a decimal number m * 10^-e with no trailing zero in the fraction, so that
\* equal numbers are equal values ("1.50" and "1.5", "3.0" and "3")
RECURSIVE Decimal(_, _)
Decimal(m, e) ==
    IF e > 0 /\ m % 10 = 0 THEN Decimal(m \div 10, e - 1)
    ELSE [k |-> "num", s |-> <<>>, n |-> m, e |-> e]

\* pd.to_numeric(..., errors='coerce') of one str: plain decimal literals
\* ("12", "1.5", "-3", ".5"), with white space around them or not, are
\* numbers, every other text is NaN
ToNumericAbs(s) ==
    LET dot == Find(s, 1, ".")
    IN  IF dot = 0
        THEN IF s # <<>> /\ AllDecimal(s) THEN Decimal(IntVal(s), 0) ELSE NaN
        ELSE LET ip == Take(s, dot - 1)
                 fp == Drop(s, dot)
             IN  IF (ip # <<>> \/ fp # <<>>) /\ AllDecimal(ip) /\ AllDecimal(fp)
                 THEN Decimal(IntVal(ip \o fp), Len(fp))
                 ELSE NaN

ToNumericSigned(s) ==
    IF s # <<>> /\ s[1] \in {"-", "+"}
    THEN LET v == ToNumericAbs(Tail(s))
         IN  IF v.k = "num" /\ s[1] = "-"
             THEN [v EXCEPT !.n = 0 - v.n]
             ELSE v
    ELSE ToNumericAbs(s)

ToNumeric(s) == ToNumericSigned(Strip(s))

RECURSIVE Flatten(_)
Flatten(ss) == IF ss = <<>> THEN <<>> ELSE Head(ss) \o Flatten(Tail(ss))

Count(seq, x) == Cardinality({i \in 1..Len(seq) : seq[i] = x})

\* os.path.splitext(p)[0]
SplitExtRoot(p) ==
    LET sepIndex == RFind(p, Len(p), "/")
        dotIndex == RFind(p, Len(p), ".")
    IN  IF dotIndex > sepIndex
           /\ PrefixRun(p, sepIndex + 1, {"."}) < dotIndex - 1
        THEN Take(p, dotIndex - 1)
        ELSE p

----------------------------------------------------------------------------
(* DataFrames: a list of column names and a list of rows of cells.  ok is  *)
(* FALSE for the value None that parse_report_file returns on failure.     *)

None == [ok |-> FALSE, cols |-> <<>>, rows |-> <<>>]
Frame(cols, rows) == [ok |-> TRUE, cols |-> cols, rows |-> rows]

ColPeak      == <<"P","e","a","k">>
ColRT        == <<"R",".","T",".">>
ColHeight    == <<"H","e","i","g","h","t">>
ColArea      == <<"A","r","e","a">>
ColPK        == <<"P","K">>
ColLibraryID == <<"L","i","b","r","a","r","y","/","I","D">>
ColSample    == <<"S","a","m","p","l","e">>
ColCompound  == <<"C","o","m","p","o","u","n","d">>

HasCol(df, c) == \E j \in 1..Len(df.cols) : df.cols[j] = c
\* position of the (first) column named c
ColIdx(df, c) == CHOOSE j \in 1..Len(df.cols) :
                    /\ df.cols[j] = c
                    /\ \A i \in 1..(j - 1) : df.cols[i] # c
Cell(df, row, c) == row[ColIdx(df, c)]

IsNa(v) == v.k = "nan"

\* pd.DataFrame(data) cut to the header (lines 176-179, 194-197): the frame
\* is as wide as the longest row, shorter rows are padded with None, and the
\* first min(width, len(header)) columns are kept under the header's names
MakeFrame(header, data) ==
    LET width    == Max({Len(data[i]) : i \in 1..Len(data)})
        num_cols == Min2(width, Len(header))
    IN  Frame(Take(header, num_cols),
              [i \in 1..Len(data) |->
                  [j \in 1..num_cols |->
                      IF j <= Len(data[i]) THEN Str(data[i][j]) ELSE NaN]])

\* df[col] = pd.to_numeric(df[col].astype(str).str.replace('"', ''),
\*                         errors='coerce')
\* a padded None becomes the text "None", which is no number
CoerceCell(v) ==
    IF v.k = "str" THEN ToNumeric(RemoveChar(v.s, "\"")) ELSE NaN

CoerceCols(df, names) ==
    Frame(df.cols,
          [i \in 1..Len(df.rows) |->
              [j \in 1..Len(df.cols) |->
                  IF df.cols[j] \in names THEN CoerceCell(df.rows[i][j])
                  ELSE df.rows[i][j]]])

\* dropna without the subset: a row with a missing value in any column is
\* dropped
DropNaAnyColumn(df, names) ==
    Frame(df.cols,
          SelectSeq(df.rows,
                    LAMBDA r : \A j \in 1..Len(df.cols) : ~IsNa(r[j])))

\* df.dropna(subset=names)
DropNa(df, names) ==
    Frame(df.cols,
          SelectSeq(df.rows,
                    LAMBDA r : \A c \in names : ~IsNa(Cell(df, r, c))))

----------------------------------------------------------------------------
(* parse_report_file.  An uploaded file is [name, lines]: its file name    *)
(* and the lines of its decoded content (file_content.splitlines()).       *)

PeakHeaderPrefix == <<"\"","P","e","a","k","\"",",","\"","R",".","T",".","\"">>
LibHeaderPrefix  == <<"\"","P","K","\"",",","\"","R","T","\"">>

\* line 146
StripLines(lines) == [i \in 1..Len(lines) |-> Strip(lines[i])]

\* the scan of lines 148-156 stopping at the first Peak List header
peak_list_header_first(lines) ==
    LET S == {i \in 1..Len(lines) : StartsWith(lines[i], PeakHeaderPrefix)}
    IN  IF S = {} THEN 0 ELSE Min(S)

\* lines 148-156, 1-based: the last line with the prefix, 0 for the -1 of
\* the code
peak_list_header_idx(lines) ==
    LET S == {i \in 1..Len(lines) : StartsWith(lines[i], PeakHeaderPrefix)}
    IN  IF S = {} THEN 0 ELSE Max(S)

library_search_header_idx(lines) ==
    LET S == {i \in 1..Len(lines) :
                 /\ ~StartsWith(lines[i], PeakHeaderPrefix)
                 /\ StartsWith(lines[i], LibHeaderPrefix)}
    IN  IF S = {} THEN 0 ELSE Max(S)

\* lines 162, 184
HeaderCols(line) ==
    LET parts == Split(line, ",")
    IN  [j \in 1..Len(parts) |-> StripClass(parts[j], {"\""})]

\* lines 168-170 without the test of the first field: every line that is
\* not empty is a data row
AnyNonEmptyLine(line) == line # <<>>

\* lines 168-170, 188-190: the test a line passes to become a data row
IsDataLine(line) ==
    /\ line # <<>>
    /\ IsDigit(RemoveChar(Strip(Split(line, ",")[1]), "\""))

\* lines 167-171, 187-191: the split data lines among lines[from..to]
RECURSIVE DataRows(_, _, _)
DataRows(lines, from, to) ==
    IF from > to THEN <<>>
    ELSE (IF IsDataLine(lines[from]) THEN <<Split(lines[from], ",")>>
          ELSE <<>>) \o DataRows(lines, from + 1, to)

\* lines 209-214: pd.merge(left, right, on=key, how='left').  Columns of
\* the same name on both sides get the suffixes _x and _y; every left row
\* yields one row per right row of equal key, in the right frame's order,
\* or one row with the right columns missing.
MergeLeft(left, right, key) ==
    LET rk      == ColIdx(right, key)
        rOther  == SelectSeq([j \in 1..Len(right.cols) |-> j],
                             LAMBDA j : j # rk)
        overlap == {left.cols[j] : j \in 1..Len(left.cols)}
                   \cap {right.cols[rOther[j]] : j \in 1..Len(rOther)}
        lcols   == [j \in 1..Len(left.cols) |->
                      IF left.cols[j] \in overlap /\ left.cols[j] # key
                      THEN left.cols[j] \o <<"_", "x">>
                      ELSE left.cols[j]]
        rcols   == [j \in 1..Len(rOther) |->
                      IF right.cols[rOther[j]] \in overlap
                      THEN right.cols[rOther[j]] \o <<"_", "y">>
                      ELSE right.cols[rOther[j]]]
        Matches(lrow) ==
            SelectSeq(right.rows,
                      LAMBDA r : ~IsNa(r[rk]) /\ r[rk] = Cell(left, lrow, key))
        Joined(lrow) ==
            IF Matches(lrow) = <<>>
            THEN <<lrow \o [j \in 1..Len(rOther) |-> NaN]>>
            ELSE [m \in 1..Len(Matches(lrow)) |->
                     lrow \o [j \in 1..Len(rOther) |->
                                 Matches(lrow)[m][rOther[j]]]]
    IN  Frame(lcols \o rcols,
              Flatten([i \in 1..Len(left.rows) |-> Joined(left.rows[i])]))

\* df[col] = value for every row: the column is overwritten when it exists
\* and appended otherwise
SetColumn(df, c, v) ==
    IF HasCol(df, c)
    THEN Frame(df.cols,
               [i \in 1..Len(df.rows) |->
                   [j \in 1..Len(df.cols) |->
                       IF df.cols[j] = c THEN v ELSE df.rows[i][j]]])
    ELSE Frame(Append(df.cols, c),
               [i \in 1..Len(df.rows) |-> Append(df.rows[i], v)])

\* FillUnknown without line 222: a missing identifier stays missing
FillUnknownKeepNaN(df) ==
    IF HasCol(df, ColLibraryID) THEN df
    ELSE SetColumn(df, ColLibraryID, Str(Unknown))

\* lines 221-224
FillUnknown(df) ==
    IF HasCol(df, ColLibraryID)
    THEN Frame(df.cols,
               [i \in 1..Len(df.rows) |->
                   [j \in 1..Len(df.cols) |->
                       IF df.cols[j] = ColLibraryID /\ IsNa(df.rows[i][j])
                       THEN Str(Unknown) ELSE df.rows[i][j]]])
    ELSE SetColumn(df, ColLibraryID, Str(Unknown))

\* lines 183-197: the Library Search frame, None when there is no header
\* or no data row
LibraryFrame(lines, lib_idx) ==
    IF lib_idx = 0 THEN None
    ELSE LET data_lib == DataRows(lines, lib_idx + 1, Len(lines))
         IN  IF data_lib = <<>> THEN None
             ELSE MakeFrame(HeaderCols(lines[lib_idx]), data_lib)

NumericCols == {ColPeak, ColRT, ColHeight, ColArea}

\* lines 206-217
MergeLibrary(df_peaks, df_library) ==
    IF df_library.ok /\ HasCol(df_library, ColPK)
    THEN LET lib == CoerceCols(df_library, {ColPK})
             renamed == Frame([j \in 1..Len(lib.cols) |->
                                  IF lib.cols[j] = ColPK THEN ColPeak
                                  ELSE lib.cols[j]],
                              lib.rows)
         IN  \* a repeated PK column, or PK next to a Peak column, makes
             \* pandas raise; the except clause returns None
             IF Count(renamed.cols, ColPeak) > 1 THEN None
             ELSE MergeLeft(df_peaks, renamed, ColPeak)
    ELSE SetColumn(df_peaks, ColLibraryID, Str(Unknown))

\* lines 146-171: the list data_peaks of a report, <<>> when the function
\* returns at line 159 before building it
PeakDataRows(uploaded_file) ==
    LET lines    == StripLines(uploaded_file.lines)
        peak_idx == peak_list_header_idx(lines)
        lib_idx  == library_search_header_idx(lines)
        end_idx  == IF lib_idx # 0 THEN lib_idx ELSE Len(lines) + 1
    IN  IF peak_idx = 0 THEN <<>>
        ELSE DataRows(lines, peak_idx + 1, end_idx - 1)

parse_report_file(uploaded_file) ==
    LET sample_name == SplitExtRoot(uploaded_file.name)
        lines    == StripLines(uploaded_file.lines)
        peak_idx == peak_list_header_idx(lines)
        lib_idx  == library_search_header_idx(lines)
    IN  IF peak_idx = 0 THEN None
        ELSE
        LET peak_rows == PeakDataRows(uploaded_file)
        IN  IF peak_rows = <<>> THEN None
            ELSE
            LET raw_peaks  == MakeFrame(HeaderCols(lines[peak_idx]), peak_rows)
                df_library == LibraryFrame(lines, lib_idx)
            IN  \* df_peaks[col] of a repeated column name is a frame with no
                \* .str, and dropna needs both columns: both raise, and the
                \* except clause (lines 230-232) returns None
                IF \/ \E c \in NumericCols : Count(raw_peaks.cols, c) > 1
                   \/ ~HasCol(raw_peaks, ColPeak)
                   \/ ~HasCol(raw_peaks, ColRT)
                THEN None
                ELSE
                LET df_peaks  == DropNa(CoerceCols(raw_peaks, NumericCols),
                                        {ColPeak, ColRT})
                    df_merged == MergeLibrary(df_peaks, df_library)
                IN  IF ~df_merged.ok
                       \/ Count(df_merged.cols, ColLibraryID) > 1
                    THEN None
                    ELSE SetColumn(FillUnknown(df_merged), ColSample,
                                   Str(sample_name))

----------------------------------------------------------------------------
(* Corpus assembly, lines 326-328 *)

\* the column names of the frames in order of first appearance
RECURSIVE UnionCols(_, _)
UnionCols(acc, frames) ==
    IF frames = <<>> THEN acc
    ELSE UnionCols(acc \o SelectSeq(Head(frames).cols,
                                     LAMBDA c : Count(acc, c) = 0),
                   Tail(frames))

\* the rows of a list from position i on, without the repeats of an
\* earlier row
RECURSIVE DistinctFrom(_, _)
DistinctFrom(rows, i) ==
    IF i > Len(rows) THEN <<>>
    ELSE (IF \E j \in 1..(i - 1) : rows[j] = rows[i] THEN <<>>
          ELSE <<rows[i]>>) \o DistinctFrom(rows, i + 1)

\* every row of every frame, in order, widened to the columns cols: a
\* column a frame lacks is NaN
ConcatRows(frames, cols) ==
    LET Widen(df, row) ==
            [j \in 1..Len(cols) |->
                IF HasCol(df, cols[j]) THEN Cell(df, row, cols[j]) ELSE NaN]
    IN  Flatten([f \in 1..Len(frames) |->
                    [i \in 1..Len(frames[f].rows) |->
                        Widen(frames[f], frames[f].rows[i])]])

\* pd.concat followed by drop_duplicates(): equal rows are merged
ConcatDropDuplicates(frames) ==
    Frame(UnionCols(<<>>, frames),
          DistinctFrom(ConcatRows(frames, UnionCols(<<>>, frames)), 1))

\* pd.concat(frames, ignore_index=True): every row of every frame, in
\* order, under the union of the columns
Concat(frames) ==
    Frame(UnionCols(<<>>, frames),
          ConcatRows(frames, UnionCols(<<>>, frames)))

\* line 327: combined_df['Compound'] =
\*               combined_df['Library/ID'].apply(clean_compound_name)
AddCompound(df) ==
    LET Compound(row) == Str(clean_compound_name(Cell(df, row, ColLibraryID)))
    IN  IF HasCol(df, ColCompound)
        THEN Frame(df.cols,
                   [i \in 1..Len(df.rows) |->
                       [j \in 1..Len(df.cols) |->
                           IF df.cols[j] = ColCompound
                           THEN Compound(df.rows[i]) ELSE df.rows[i][j]]])
        ELSE Frame(Append(df.cols, ColCompound),
                   [i \in 1..Len(df.rows) |->
                       Append(df.rows[i], Compound(df.rows[i]))])

\* line 328: combined_df[combined_df['Compound'] != 'Unknown']
Identified(df) ==
    Frame(df.cols,
          SelectSeq(df.rows,
                    LAMBDA r : Cell(df, r, ColCompound) # Str(Unknown)))

\* line 318 without the filter
ValidAll(all_data) == all_data

\* line 318
ValidOnly(all_data) == SelectSeq(all_data, LAMBDA df : df.ok)

\* line 292 with the limit off by one
TooManyOffByOne(files) == Len(files) > MaxFiles + 1

\* line 292
TooMany(files) == Len(files) > MaxFiles

----------------------------------------------------------------------------
(* Arguments of clean_compound_name *)

AllSeqs(S, n) == UNION {[1..k -> S] : k \in 0..n}

NormAlphabet == {"\"", "1", "-", "(", ")", "R", "b", " "}

Butanol1         == <<"1","-","B","u","t","a","n","o","l">>
Butanol          == <<"B","u","t","a","n","o","l">>
Butanol12        == <<"1","-","2","-","B","u","t","a","n","o","l">>
QuotedBornanone  == <<"\"","(","+",")","-","2","-","B","o","r","n","a","n","o","n","e","\"">>
Bornanone        == <<"B","o","r","n","a","n","o","n","e">>
UNKNOWN          == <<"U","N","K","N","O","W","N">>
Digits12         == <<"1","2">>
Digits123        == <<"1","2","3">>
EthylAcetateCaps == <<"E","T","H","Y","L"," ","A","C","E","T","A","T","E">>
EthylAcetate     == <<"E","t","h","y","l"," ","A","c","e","t","a","t","e">>
\* a quoted field with a blank before the closing quote
QuotedABCSpace   == <<"\"","A","B","C"," ","\"">>
ABC              == <<"A","B","C">>
NaCl             == <<"N","a","C","l">>
\* two quote characters on each side
TwiceQuotedEthanol == <<"\"","\"","E","t","h","a","n","o","l","\"","\"">>

NameExamples ==
    {Butanol1, Butanol12, QuotedBornanone, UNKNOWN, Digits12, Digits123,
     EthylAcetateCaps, Unknown, QuotedABCSpace, ABC, NaCl, TwiceQuotedEthanol}

NameInputs == AllSeqs(NormAlphabet, MaxNameLen) \cup NameExamples

----------------------------------------------------------------------------
(* Report lines *)

PeakHeaderLine == <<"\"","P","e","a","k","\"",",","\"","R",".","T",".","\"",",","\"","H","e","i","g","h","t","\"",",","\"","A","r","e","a","\"">>
LibHeaderLine  == <<"\"","P","K","\"",",","\"","R","T","\"",",","\"","L","i","b","r","a","r","y","/","I","D","\"",",","\"","Q","u","a","l","\"">>

\* Peak List lines
Peak3Line      == <<"3",",","3",".","5",",","3","0","0",",","3","0","0","0">>
Peak5Line      == <<"\"","5","\"",",","\"","5",".","5","\"",",","\"","5","0","0","\"",",","\"","5","0","0","0","\"">>
\* a peak index followed by a blank before the comma
Peak3SpacedLine == <<"3"," ",",","3",".","5",",","3","0","0",",","3","0","0","0">>
\* a first field that is a digit for str.isdigit and no number
SuperTwoLine   == <<SuperscriptTwo,",","2",".","5",",","2","0","0",",","2","0","0","0">>
\* a peak whose Height is not numeric
Peak5BadHeightLine == <<"5",",","5",".","5",",","n","/","a",",","5","0","0","0">>
\* a peak whose R.T. is not numeric
Peak7BadRTLine == <<"7",",","n","/","a",",","7","0","0",",","7","0","0","0">>
FooterLine     == <<"\"","E","n","d"," ","o","f"," ","R","e","p","o","r","t","\"">>
BlankLine      == <<>>

\* Library Search lines
Lib3EthanolLine == <<"3",",","3",".","5",",","\"","E","t","h","a","n","o","l","\"",",","9","0">>
\* a second hit for peak 3, with an all-digit identifier
Lib3DigitsLine  == <<"3",",","3",".","5",",","\"","1","2","3","\"",",","8","0">>
Lib5UnknownLine == <<"5",",","5",".","5",",","\"","U","N","K","N","O","W","N","\"",",","5","0">>
\* a ragged line: the peak key alone
Lib3ShortLine   == <<"3">>
\* a quoted identifier with commas in it
Lib3BenzeneLine == <<"3",",","3",".","5",",","\"","B","e","n","z","e","n","e",","," ","1",",","3","-","d","i","m","e","t","h","y","l","-","\"",",","9","0">>

PeakBodyLines == {Peak3Line, Peak5Line, Peak7BadRTLine, FooterLine, BlankLine}
\* further Peak List lines, for the reports that have this section only
PeakOddLines  == {Peak3SpacedLine, SuperTwoLine, Peak5BadHeightLine}
LibBodyLines  == {Lib3EthanolLine, Lib3DigitsLine, Lib5UnknownLine,
                  Lib3ShortLine, Lib3BenzeneLine}

ReportName == <<"r","u","n","1",".","c","s","v">>

\* the line lists of the reports the parser is run on: a Peak List section
\* of up to MaxPeakRows lines, a Library Search section of up to MaxLibRows
\* lines, in either order, with or without their header lines, and with a
\* header line that comes twice
ReportLines ==
    LET PB  == AllSeqs(PeakBodyLines, MaxPeakRows)
        PO  == AllSeqs(PeakBodyLines \cup PeakOddLines, MaxPeakRows)
        LB  == AllSeqs(LibBodyLines, MaxLibRows)
        \* short sections, for the reports of three sections
        PB2 == AllSeqs({Peak3Line, Peak5Line}, MaxPeakRows)
        PB1 == AllSeqs({Peak3Line}, MaxPeakRows)
        LB2 == AllSeqs({Lib3EthanolLine, Lib5UnknownLine}, MaxLibRows)
        LB1 == AllSeqs({Lib3EthanolLine}, MaxLibRows)
    IN  {<<PeakHeaderLine>> \o pb : pb \in PO}
        \cup {<<PeakHeaderLine>> \o pb \o <<LibHeaderLine>> \o lb :
                 pb \in PB, lb \in LB}
        \cup {<<LibHeaderLine>> \o lb \o <<PeakHeaderLine>> \o pb :
                 pb \in PB, lb \in LB1}
        \cup {pb \o <<LibHeaderLine>> \o lb : pb \in PB, lb \in LB1}
        \cup PB
        \cup {<<PeakHeaderLine>> \o pa \o <<PeakHeaderLine>> \o pb :
                 pa \in PB2, pb \in PB2}
        \cup {<<PeakHeaderLine>> \o pb \o <<LibHeaderLine>> \o la
                 \o <<LibHeaderLine>> \o lb :
                 pb \in PB1, la \in LB2, lb \in LB2}
        \cup {<<PeakHeaderLine>> \o pa \o <<LibHeaderLine>> \o lb
                 \o <<PeakHeaderLine>> \o pb :
                 pa \in PB1, lb \in LB1, pb \in PB1}

----------------------------------------------------------------------------
(* The normalizer applied once and then to its own result *)

NormIdle ==
    name = <<>> /\ cleaned = <<>> /\ recleaned = <<>> /\ npc = "idle"

ParseIdle ==
    /\ report = [name |-> <<>>, lines |-> <<>>]
    /\ data_peaks = <<>>
    /\ parsed = None
    /\ ppc = "idle"

SessionIdle ==
    /\ button = "none"
    /\ uploaded_files = <<>>
    /\ analysis_complete = FALSE
    /\ uploaded_files_list = <<>>
    /\ all_data_list = <<>>
    /\ combined_df = None
    /\ base_analysis_df = None
    /\ view = "idle"
    /\ notice = "none"

InitNorm ==
    /\ name \in NameInputs
    /\ cleaned = <<>>
    /\ recleaned = <<>>
    /\ npc = "in"
    /\ ParseIdle
    /\ SessionIdle

CleanOnce ==
    /\ npc = "in"
    /\ cleaned' = clean_compound_name(Str(name))
    /\ npc' = "once"
    /\ UNCHANGED <<name, recleaned, pvars, svars>>

CleanAgain ==
    /\ npc = "once"
    /\ recleaned' = clean_compound_name(Str(cleaned))
    /\ npc' = "twice"
    /\ UNCHANGED <<name, cleaned, pvars, svars>>

NextNorm == CleanOnce \/ CleanAgain

SpecNorm == InitNorm /\ [][NextNorm]_vars

----------------------------------------------------------------------------
(* The parser applied to one report *)

InitParse ==
    /\ report \in {[name |-> ReportName, lines |-> ls] : ls \in ReportLines}
    /\ data_peaks = <<>>
    /\ parsed = None
    /\ ppc = "in"
    /\ NormIdle
    /\ SessionIdle

ParseReport ==
    /\ ppc = "in"
    /\ data_peaks' = PeakDataRows(report)
    /\ parsed' = parse_report_file(report)
    /\ ppc' = "done"
    /\ UNCHANGED <<report, nvars, svars>>

NextParse == ParseReport

SpecParse == InitParse /\ [][NextParse]_vars

----------------------------------------------------------------------------
(* The session: every action is one click and the script runs it causes *)

FileA == [name  |-> <<"a",".","c","s","v">>,
          lines |-> <<PeakHeaderLine, Peak3Line, Peak5Line,
                      LibHeaderLine, Lib3EthanolLine, Lib5UnknownLine>>]
\* a report without Library Search section, its peaks not in ascending order
FileB == [name  |-> <<"b",".","t","x","t">>,
          lines |-> <<PeakHeaderLine, Peak5Line, Peak3Line, Peak7BadRTLine,
                      FooterLine>>]
\* a report without the Peak List header
FileC == [name  |-> <<"c",".","c","s","v">>,
          lines |-> <<Peak3Line, Peak5Line>>]

Files == {FileA, FileB, FileC}

\* what the file_uploader widget can hold when a button is clicked: every
\* list of up to MaxBatch files, and the lists of MaxFiles and more copies
\* of one report around the upload limit
UploadLists ==
    AllSeqs(Files, MaxBatch)
    \cup {[i \in 1..n |-> FileA] : n \in MaxFiles..(MaxFiles + MaxOver)}

\* lines 260-264 and the first run of the script
Init ==
    /\ button = "none"
    /\ uploaded_files = <<>>
    /\ analysis_complete = FALSE
    /\ uploaded_files_list = <<>>
    /\ all_data_list = <<>>
    /\ combined_df = None
    /\ base_analysis_df = None
    /\ view = "info"
    /\ notice = "none"
    /\ NormIdle
    /\ ParseIdle

\* parse_report_file of the files that can be uploaded, computed once
ParsedFiles == {[file |-> f, df |-> parse_report_file(f)] : f \in Files}

\* line 317 giving up at the first file that fails: the files after it
\* are not parsed
ParseUntilFailure(files_list) ==
    LET all == [i \in 1..Len(files_list) |->
                   (CHOOSE p \in ParsedFiles : p.file = files_list[i]).df]
        bad == {i \in 1..Len(all) : ~all[i].ok}
    IN  IF bad = {} THEN all
        ELSE [i \in 1..Len(all) |->
                 IF i < Min(bad) THEN all[i] ELSE None]

\* line 317 over the list from its end: the frames in reverse upload order
ParseAllReversed(files_list) ==
    [i \in 1..Len(files_list) |->
        (CHOOSE p \in ParsedFiles :
            p.file = files_list[Len(files_list) + 1 - i]).df]

\* line 317: [parse_report_file(f) for f in uploaded_files_list]
ParseAll(files_list) ==
    [i \in 1..Len(files_list) |->
        (CHOOSE p \in ParsedFiles : p.file = files_list[i]).df]

\* lines 305-328 and what follows them: the main display area of one script
\* run, given the session state the sidebar code has left
Display(complete, files_list) ==
    /\ uploaded_files_list' = files_list
    /\ IF complete /\ files_list # <<>>
       THEN \E all_data \in {ParseAll(files_list)} :
            \E valid_data \in {ValidOnly(all_data)} :
               /\ all_data_list' = all_data
               /\ IF valid_data = <<>>
                  THEN \* lines 320-323: st.error, reset, st.stop()
                       /\ analysis_complete' = FALSE
                       /\ combined_df' = None
                       /\ base_analysis_df' = None
                       /\ view' = "empty_batch"
                  ELSE \E concat \in {Concat(valid_data)} :
                       \E combined \in {AddCompound(concat)} :
                          /\ analysis_complete' = complete
                          /\ combined_df' = combined
                          /\ base_analysis_df' = Identified(combined)
                          /\ view' = "results"
       ELSE /\ analysis_complete' = complete
            /\ all_data_list' = <<>>
            /\ combined_df' = None
            /\ base_analysis_df' = None
            /\ view' = IF complete THEN "blank" ELSE "info"

\* Clear Data without line 288: the stored list is kept
ClearDataKeepsList ==
    /\ button' = "clear"
    /\ Display(FALSE, uploaded_files_list)
    /\ notice' = "none"
    /\ UNCHANGED <<uploaded_files, nvars, pvars>>

\* lines 286-289, then the run st.rerun() starts
ClearData ==
    /\ button' = "clear"
    /\ Display(FALSE, <<>>)
    /\ notice' = "none"
    /\ UNCHANGED <<uploaded_files, nvars, pvars>>

\* lines 298-299: Analyze with nothing uploaded
AnalyzeNoFiles ==
    /\ button' = "analyze"
    /\ uploaded_files' = <<>>
    /\ notice' = "no_files"
    /\ Display(analysis_complete, uploaded_files_list)
    /\ UNCHANGED <<nvars, pvars>>

\* lines 291-293: Analyze with more files than the limit
AnalyzeTooMany ==
    \E files \in UploadLists :
        /\ files # <<>>
        /\ TooMany(files)
        /\ button' = "analyze"
        /\ uploaded_files' = files
        /\ notice' = "too_many"
        /\ Display(analysis_complete, uploaded_files_list)
        /\ UNCHANGED <<nvars, pvars>>

\* lines 294-297, then the run st.rerun() starts
AnalyzeAccepted ==
    \E files \in UploadLists :
        /\ files # <<>>
        /\ ~TooMany(files)
        /\ button' = "analyze"
        /\ uploaded_files' = files
        /\ notice' = "none"
        /\ Display(TRUE, files)
        /\ UNCHANGED <<nvars, pvars>>

\* any other widget interaction: the script runs again with no button set
Rerun ==
    /\ button' = "none"
    /\ notice' = "none"
    /\ Display(analysis_complete, uploaded_files_list)
    /\ UNCHANGED <<uploaded_files, nvars, pvars>>

Next == ClearData \/ AnalyzeNoFiles \/ AnalyzeTooMany \/ AnalyzeAccepted \/ Rerun

Spec == Init /\ [][Next]_vars

----------------------------------------------------------------------------
(* Properties of the normalizer, checked under SpecNorm *)

\* the text of name after the quote, prefix and suffix stripping and the
\* whitespace collapsing of lines 109-124
Stripped(s) ==
    Strip(CollapseSpaces(SubIndexSuffix(StripPrefixes(StripQuotes(s)))))

\* C2: clean_compound_name is idempotent: applied to its own result it
\* returns that result, for every argument
C2_Idempotent == npc = "twice" => recleaned = cleaned

\* C3: clean_compound_name('"(+)-2-Bornanone"') is "Bornanone" and
\* clean_compound_name("1-Butanol") is "Butanol"
C3_PrefixExamples ==
    npc # "in" =>
        /\ (name = QuotedBornanone => cleaned = Bornanone)
        /\ (name = Butanol1 => cleaned = Butanol)

\* C5: an identifier that is all digits after stripping, of any length,
\* is normalized to the sentinel 'Unknown'
C5_DigitsAreUnknown ==
    (npc # "in" /\ Stripped(name) # <<>> /\ AllDecimal(Stripped(name)))
        => cleaned = Unknown

\* C12: the result is title-cased exactly when the stripped, trimmed name
\* is entirely upper-case and longer than 3 characters; a mixed-case name
\* and an upper-case name of 3 or fewer characters keep their case
C12_TitleCaseExactly ==
    (npc # "in" /\ Len(Stripped(name)) >= 3) =>
        cleaned = IF IsUpper(Stripped(name)) /\ Len(Stripped(name)) > 3
                  THEN Title(Stripped(name))
                  ELSE Stripped(name)

\* step 1 as claimed: the white space around the name goes, and then one
\* pair of enclosing quote characters when the name is wrapped in one
StripOnePair(s) ==
    IF /\ Len(Strip(s)) >= 2
       /\ Strip(s)[1] \in {"\"", "'"}
       /\ Strip(s)[Len(Strip(s))] = Strip(s)[1]
    THEN SubSeq(Strip(s), 2, Len(Strip(s)) - 1)
    ELSE Strip(s)

\* C14: step 1 removes at most one pair of enclosing quote characters: the
\* result is what the later steps make of the name with one pair removed,
\* so that further quote characters, and a quote character on one side
\* only, stay in it
C14_SinglePairStripped ==
    npc # "in" =>
        cleaned = RejectShort(Strip(TitleIfUpper(CollapseSpaces(
                      SubIndexSuffix(StripPrefixes(StripOnePair(name)))))))

----------------------------------------------------------------------------
(* Properties of the parser, checked under SpecParse *)

\* the split data lines of the Library Search section of a report
LibDataRows(f) ==
    LET ls == StripLines(f.lines)
        l  == library_search_header_idx(ls)
    IN  IF l = 0 THEN <<>> ELSE DataRows(ls, l + 1, Len(ls))

\* the numeric value of field j of a split line, NaN when it has none
FieldNum(parts, j) ==
    IF j <= Len(parts) THEN CoerceCell(Str(parts[j])) ELSE NaN

\* the Peak List data lines that keep a numeric Peak and R.T.
SurvivingPeakRows(f) ==
    SelectSeq(PeakDataRows(f),
              LAMBDA parts : ~IsNa(FieldNum(parts, 1)) /\ ~IsNa(FieldNum(parts, 2)))

\* the identifiers the Library Search section gives for a peak index: the
\* Library/ID field of every data line with that key (the sentinel when the
\* line is too short to have the field), the sentinel alone when no line has
\* the key
LibraryIdsFor(f, peak) ==
    LET ls   == StripLines(f.lines)
        l    == library_search_header_idx(ls)
        hdr  == IF l = 0 THEN <<>> ELSE HeaderCols(ls[l])
        rows == LibDataRows(f)
        hits == {i \in 1..Len(rows) : FieldNum(rows[i], 1) = peak}
        IdOf(parts) ==
            IF \E j \in 1..Len(hdr) : hdr[j] = ColLibraryID /\ j <= Len(parts)
            THEN Str(parts[CHOOSE j \in 1..Len(hdr) : hdr[j] = ColLibraryID])
            ELSE Str(Unknown)
    IN  IF hits = {} THEN {Str(Unknown)}
        ELSE {IdOf(rows[i]) : i \in hits}

\* C1: the parsed frame has exactly one row per Peak List data line that
\* kept a numeric Peak and R.T., whatever the Library Search section holds
C1_OneRowPerPeak ==
    (ppc = "done" /\ parsed.ok) =>
        Len(parsed.rows) = Len(SurvivingPeakRows(report))

\* C6: every row of the parsed frame carries the R.T., Height and Area of a
\* surviving Peak List line of its peak index, and its Library/ID is an
\* identifier the Library Search section gives for that index, or the
\* sentinel "Unknown" when the section is absent or has no line for it
C6_IdentifierOrUnknown ==
    (ppc = "done" /\ parsed.ok) =>
        /\ HasCol(parsed, ColLibraryID)
        /\ \A i \in 1..Len(parsed.rows) :
             \E k \in 1..Len(SurvivingPeakRows(report)) :
                LET parts == SurvivingPeakRows(report)[k]
                    row   == parsed.rows[i]
                IN  /\ Cell(parsed, row, ColPeak) = FieldNum(parts, 1)
                    /\ Cell(parsed, row, ColRT) = FieldNum(parts, 2)
                    /\ HasCol(parsed, ColHeight) =>
                         Cell(parsed, row, ColHeight) = FieldNum(parts, 3)
                    /\ HasCol(parsed, ColArea) =>
                         Cell(parsed, row, ColArea) = FieldNum(parts, 4)
                    /\ Cell(parsed, row, ColLibraryID)
                         \in LibraryIdsFor(report, FieldNum(parts, 1))

\* a report with a library match for peak 3 and none for peak 5, parsed
C6_Witness ==
    /\ ppc = "done"
    /\ parsed.ok
    /\ report.lines = <<PeakHeaderLine, Peak3Line, Peak5Line,
                        LibHeaderLine, Lib3EthanolLine>>
    /\ Len(parsed.rows) = 2
    /\ Cell(parsed, parsed.rows[1], ColLibraryID).s = <<"\"","E","t","h","a","n","o","l","\"">>
    /\ Cell(parsed, parsed.rows[2], ColLibraryID) = Str(Unknown)
    /\ Cell(parsed, parsed.rows[2], ColHeight) = Decimal(500, 0)

\* the positions of the lines of a report strictly after its Peak List
\* header and before its Library Search header, to the end without one
PeakRange(f) ==
    LET ls == StripLines(f.lines)
        p  == peak_list_header_idx(ls)
        l  == library_search_header_idx(ls)
    IN  IF p = 0 THEN {}
        ELSE {i \in (p + 1)..Len(ls) : l = 0 \/ i < l}

\* the text of a line before its first comma
FirstField(line) ==
    IF Find(line, 1, ",") = 0 THEN line
    ELSE Take(line, Find(line, 1, ",") - 1)

\* the first field without its quote characters is a non-empty string of
\* the digits 0-9
DigitsAsClaimed(line) ==
    /\ RemoveChar(FirstField(line), "\"") # <<>>
    /\ AllDecimal(RemoveChar(FirstField(line), "\""))

\* the first field, without the white space around it and then without its
\* quote characters, is a non-empty string of characters that are digits
\* for str.isdigit
DigitsAfterStrip(line) ==
    IsDigit(RemoveChar(Strip(FirstField(line)), "\""))

\* the positions of the Peak List range whose line passes the test T
RowPositions(f, T(_)) ==
    SelectSeq([i \in 1..Len(f.lines) |-> i],
              LAMBDA i : i \in PeakRange(f) /\ T(Strip(f.lines[i])))

\* the lines at these positions, split at every comma
RowsAt(f, pos) == [k \in 1..Len(pos) |-> Split(Strip(f.lines[pos[k]]), ",")]

\* a report without the lines of its Peak List range that are no data rows
SkippedRemoved(f) ==
    LET keep == SelectSeq([i \in 1..Len(f.lines) |-> i],
                          LAMBDA i : \/ i \notin PeakRange(f)
                                     \/ DigitsAfterStrip(Strip(f.lines[i])))
    IN  [f EXCEPT !.lines = [k \in 1..Len(keep) |-> f.lines[keep[k]]]]

C13_CoercionDropsRowsOnly ==
    (ppc = "done" /\ data_peaks # <<>>) =>
        /\ parsed.ok
        /\ \A i \in 1..Len(parsed.rows) :
              /\ ~IsNa(Cell(parsed, parsed.rows[i], ColPeak))
              /\ ~IsNa(Cell(parsed, parsed.rows[i], ColRT))
        /\ \A k \in 1..Len(data_peaks) :
              (~IsNa(FieldNum(data_peaks[k], 1)) /\ ~IsNa(FieldNum(data_peaks[k], 2)))
              => \E i \in 1..Len(parsed.rows) :
                    /\ Cell(parsed, parsed.rows[i], ColPeak) = FieldNum(data_peaks[k], 1)
                    /\ Cell(parsed, parsed.rows[i], ColRT) = FieldNum(data_peaks[k], 2)
                    /\ HasCol(parsed, ColHeight)
                    /\ Cell(parsed, parsed.rows[i], ColHeight) = FieldNum(data_peaks[k], 3)
                    /\ HasCol(parsed, ColArea)
                    /\ Cell(parsed, parsed.rows[i], ColArea) = FieldNum(data_peaks[k], 4)

\* a peak with a Height that is no number, kept, and one with an R.T. that
\* is no number, dropped
C13_Witness ==
    /\ ppc = "done"
    /\ report.lines = <<PeakHeaderLine, Peak5BadHeightLine, Peak7BadRTLine>>
    /\ parsed.ok
    /\ Len(parsed.rows) = 1
    /\ Cell(parsed, parsed.rows[1], ColPeak) = Decimal(5, 0)
    /\ IsNa(Cell(parsed, parsed.rows[1], ColHeight))
    /\ Cell(parsed, parsed.rows[1], ColArea) = Decimal(5000, 0)

\* the positions of the lines of a report that start with the Peak List
\* header text, and of those that start with the Library Search header text
PeakHeaderLines(f) ==
    {i \in 1..Len(f.lines) : StartsWith(Strip(f.lines[i]), PeakHeaderPrefix)}
LibHeaderLines(f) ==
    {i \in 1..Len(f.lines) : StartsWith(Strip(f.lines[i]), LibHeaderPrefix)}

\* the identifiers that the data lines after position l give for a peak
\* index, under the column names of the line at l
IdsAfter(f, l, peak) ==
    {Str(Split(Strip(f.lines[i]), ",")[j]) :
        <<i, j>> \in
            {q \in ((l + 1)..Len(f.lines)) \X (1..Len(HeaderCols(Strip(f.lines[l])))) :
                /\ HeaderCols(Strip(f.lines[l]))[q[2]] = ColLibraryID
                /\ DigitsAfterStrip(Strip(f.lines[q[1]]))
                /\ q[2] <= Len(Split(Strip(f.lines[q[1]]), ","))
                /\ FieldNum(Split(Strip(f.lines[q[1]]), ","), 1) = peak}}

\* C17: of several lines with the Peak List header text the last one is the
\* header, and likewise for the Library Search header: data_peaks is the
\* data lines after the last Peak List header line and before the last
\* Library Search header line, an identifier of the result comes from a
\* line after the last Library Search header line, and when that line lies
\* before the last Peak List header line the range is empty and the parse
\* returns None
C17_LastHeaderWins ==
    (ppc = "done" /\ PeakHeaderLines(report) # {}) =>
        LET p == Max(PeakHeaderLines(report))
            l == IF LibHeaderLines(report) = {} THEN Len(report.lines) + 1
                 ELSE Max(LibHeaderLines(report))
        IN  /\ data_peaks =
                  RowsAt(report,
                         SelectSeq([i \in 1..Len(report.lines) |-> i],
                                   LAMBDA i : /\ i > p
                                              /\ i < l
                                              /\ DigitsAfterStrip(Strip(report.lines[i]))))
            /\ l < p => (data_peaks = <<>> /\ parsed = None)
            /\ parsed.ok =>
                  \A i \in 1..Len(parsed.rows) :
                      \/ Cell(parsed, parsed.rows[i], ColLibraryID) = Str(Unknown)
                      \/ /\ l <= Len(report.lines)
                         /\ Cell(parsed, parsed.rows[i], ColLibraryID)
                               \in IdsAfter(report, l,
                                            Cell(parsed, parsed.rows[i], ColPeak))

\* two Peak List header lines with a Library Search header line between
\* them, and a peak line after the last one
C17_Witness ==
    /\ ppc = "done"
    /\ report.lines = <<PeakHeaderLine, Peak3Line, LibHeaderLine,
                        Lib3EthanolLine, PeakHeaderLine, Peak3Line>>
    /\ data_peaks = <<>>
    /\ parsed = None

ColQual == <<"Q","u","a","l">>

\* the pieces of a text between its commas
Fragments(s) ==
    LET commas == SelectSeq([i \in 1..Len(s) |-> i], LAMBDA i : s[i] = ",")
    IN  [k \in 1..(Len(commas) + 1) |->
            SubSeq(s,
                   IF k = 1 THEN 1 ELSE commas[k - 1] + 1,
                   IF k = Len(commas) + 1 THEN Len(s) ELSE commas[k] - 1)]

\* the fields of a line as a csv reader sees them, with field j replaced by
\* its pieces: every field after it moves right by one place per comma in it
ShiftedFields(line, j) ==
    Take(SplitCsv(line, ","), j - 1)
    \o Fragments(SplitCsv(line, ",")[j])
    \o Drop(SplitCsv(line, ","), j)

\* C18: a Library Search data line whose quoted identifier has commas in it
\* is split at those commas too: a peak of its key has a result row whose
\* Library/ID is the text before the first of these commas and whose later
\* columns hold the fields of the line moved right by one column per comma
C18_EmbeddedCommasSplit ==
    (ppc = "done" /\ parsed.ok /\ LibHeaderLines(report) # {}) =>
        LET l   == Max(LibHeaderLines(report))
            hdr == HeaderCols(Strip(report.lines[l]))
        IN  \A i \in (l + 1)..Len(report.lines) :
            \A j \in 1..Len(hdr) :
                LET line == Strip(report.lines[i])
                    csv  == SplitCsv(line, ",")
                IN  ( /\ hdr[j] = ColLibraryID
                      /\ DigitsAfterStrip(line)
                      /\ j <= Len(csv)
                      /\ Len(Fragments(csv[j])) > 1
                      /\ \E r \in 1..Len(parsed.rows) :
                            Cell(parsed, parsed.rows[r], ColPeak) = FieldNum(csv, 1) )
                    => \E r \in 1..Len(parsed.rows) :
                          /\ Cell(parsed, parsed.rows[r], ColPeak) = FieldNum(csv, 1)
                          /\ Cell(parsed, parsed.rows[r], ColLibraryID)
                                = Str(Fragments(csv[j])[1])
                          /\ \A c \in j..Len(hdr) :
                                (c <= Len(ShiftedFields(line, j)) /\ HasCol(parsed, hdr[c]))
                                => Cell(parsed, parsed.rows[r], hdr[c])
                                     = Str(ShiftedFields(line, j)[c])

\* peak 3 with the identifier "Benzene, 1,3-dimethyl-": the row has the
\* text before the first comma as Library/ID and the next piece as Qual
C18_Witness ==
    /\ ppc = "done"
    /\ report.lines = <<PeakHeaderLine, Peak3Line, LibHeaderLine, Lib3BenzeneLine>>
    /\ parsed.ok
    /\ Len(parsed.rows) = 1
    /\ Cell(parsed, parsed.rows[1], ColLibraryID)
          = Str(<<"\"","B","e","n","z","e","n","e">>)
    /\ Cell(parsed, parsed.rows[1], ColQual) = Str(<<" ","1">>)

----------------------------------------------------------------------------
(* Properties of the session and the corpus, checked under Spec *)

\* parse_report_file of an uploadable file
ParsedOf(f) == (CHOOSE p \in ParsedFiles : p.file = f).df

RECURSIVE SumLen(_)
SumLen(frames) ==
    IF frames = <<>> THEN 0
    ELSE Len(Head(frames).rows) + SumLen(Tail(frames))

\* a file has a line that starts with the Peak List header
HasPeakHeader(f) ==
    \E i \in 1..Len(f.lines) : StartsWith(Strip(f.lines[i]), PeakHeaderPrefix)

\* the columns Sample, Peak, R.T. of the rows of a frame
Keys(df) ==
    [i \in 1..Len(df.rows) |->
        <<Cell(df, df.rows[i], ColSample), Cell(df, df.rows[i], ColPeak),
          Cell(df, df.rows[i], ColRT)>>]

QuotedUNKNOWN == <<"\"","U","N","K","N","O","W","N","\"">>

\* C4 as claimed: a corpus row whose identifier is "UNKNOWN" gets a
\* Compound other than the sentinel and is in the identified subset
C4_UpperUnknownIdentified ==
    view = "results" =>
        \A i \in 1..Len(combined_df.rows) :
            Cell(combined_df, combined_df.rows[i], ColLibraryID) = Str(QuotedUNKNOWN)
            => /\ Cell(combined_df, combined_df.rows[i], ColCompound) # Str(Unknown)
               /\ Count(base_analysis_df.rows, combined_df.rows[i]) > 0

\* C4 as amended: the all-caps identifier "UNKNOWN" is title-cased to the
\* sentinel 'Unknown', so a corpus row with it is left out of the
\* identified subset
C4_UpperUnknownIsSentinel ==
    view = "results" =>
        \A i \in 1..Len(combined_df.rows) :
            Cell(combined_df, combined_df.rows[i], ColLibraryID) = Str(QuotedUNKNOWN)
            => /\ Cell(combined_df, combined_df.rows[i], ColCompound) = Str(Unknown)
               /\ Count(base_analysis_df.rows, combined_df.rows[i]) = 0

\* a corpus with a row whose identifier is "UNKNOWN"
C4_Witness ==
    /\ view = "results"
    /\ \E i \in 1..Len(combined_df.rows) :
          Cell(combined_df, combined_df.rows[i], ColLibraryID) = Str(QuotedUNKNOWN)

\* C7: a file without a Peak List header parses to None, and a batch with
\* such files still ends with a corpus: the rows of the other files, in
\* order, and none of the failed ones
C7_MalformedFileSkipped ==
    (button = "analyze" /\ notice = "none") =>
        /\ Len(all_data_list) = Len(uploaded_files_list)
        /\ \A i \in 1..Len(uploaded_files_list) :
              ~HasPeakHeader(uploaded_files_list[i]) => ~all_data_list[i].ok
        /\ (\E i \in 1..Len(uploaded_files_list) : ParsedOf(uploaded_files_list[i]).ok)
           => /\ view = "results"
              /\ Keys(combined_df) =
                   Flatten([i \in 1..Len(uploaded_files_list) |->
                               Keys(ParsedOf(uploaded_files_list[i]))])

\* three files analyzed, the second of them without a Peak List header
C7_Witness ==
    /\ button = "analyze"
    /\ view = "results"
    /\ uploaded_files_list = <<FileA, FileC, FileB>>
    /\ ~all_data_list[2].ok
    /\ Len(combined_df.rows) = 4

\* C8: the corpus has as many rows as the parsed sets together, and the
\* identified subset is exactly its rows whose Compound is not the sentinel
C8_CorpusKeepsEveryRow ==
    view = "results" =>
        /\ Len(combined_df.rows) = SumLen(ValidOnly(all_data_list))
        /\ base_analysis_df.cols = combined_df.cols
        /\ base_analysis_df.rows =
             SelectSeq(combined_df.rows,
                       LAMBDA r : Cell(combined_df, r, ColCompound).s # Unknown)
        /\ Len(base_analysis_df.rows) <= SumLen(ValidOnly(all_data_list))

\* the same file uploaded twice: equal rows, all kept, some not identified
C8_Witness ==
    /\ view = "results"
    /\ uploaded_files_list = <<FileA, FileA>>
    /\ Len(combined_df.rows) = 4
    /\ Len(base_analysis_df.rows) = 2

\* C9: an Analyze click with more than MaxFiles files uploaded is answered
\* with the error; the stored list and the flag stay as they were and the
\* run parses the stored list only
C9_TooManyRejected ==
    [][(button' = "analyze" /\ Len(uploaded_files') > MaxFiles)
       => /\ notice' = "too_many"
          /\ uploaded_files_list' = uploaded_files_list
          /\ analysis_complete' = analysis_complete
          /\ Len(all_data_list') =
               (IF analysis_complete THEN Len(uploaded_files_list) ELSE 0)]_vars

\* 21 files rejected while the analysis of an earlier upload is shown
C9_Witness ==
    /\ button = "analyze"
    /\ notice = "too_many"
    /\ Len(uploaded_files) = MaxFiles + 1
    /\ analysis_complete
    /\ Len(uploaded_files_list) = 2
    /\ view = "results"

\* C10: a run in which every file fails to parse builds no corpus, shows
\* the batch error and resets analysis_complete; a run in which only some
\* files fail shows the results and keeps the flag
C10_EmptyBatch ==
    all_data_list # <<>> =>
        IF \A i \in 1..Len(all_data_list) : ~all_data_list[i].ok
        THEN /\ view = "empty_batch"
             /\ ~analysis_complete
             /\ combined_df = None
             /\ base_analysis_df = None
        ELSE /\ view = "results"
             /\ analysis_complete
             /\ combined_df.ok

\* two files, both without a Peak List header
C10_Witness ==
    /\ view = "empty_batch"
    /\ Len(all_data_list) = 2
    /\ uploaded_files_list = <<FileC, FileC>>
    /\ ~analysis_complete

\* the <<Sample, Peak, R.T.>> of the rows a file gives the corpus, read off
\* its lines: the Peak List data lines with a numeric Peak and R.T., in the
\* order of the lines, each once or once per Library Search line of its key;
\* nothing for a file that fails to parse
LineKeys(f) ==
    LET rows == SurvivingPeakRows(f)
        Hits(parts) ==
            Cardinality({i \in 1..Len(LibDataRows(f)) :
                            FieldNum(LibDataRows(f)[i], 1) = FieldNum(parts, 1)})
    IN  IF ~parse_report_file(f).ok THEN <<>>
        ELSE Flatten([k \in 1..Len(rows) |->
                         [m \in 1..Max({1, Hits(rows[k])}) |->
                             <<Str(SplitExtRoot(f.name)),
                               FieldNum(rows[k], 1), FieldNum(rows[k], 2)>>]])

\* LineKeys of the files that can be uploaded, computed once
FileLineKeys == {[file |-> f, keys |-> LineKeys(f)] : f \in Files}

\* C15: the corpus rows are those of the first parsed file in the order of
\* its Peak List lines, then those of the second, and so on in upload
\* order; a file that fails is left out and the others keep their order
C15_UploadOrder ==
    view = "results" =>
        Keys(combined_df) =
            Flatten([i \in 1..Len(uploaded_files_list) |->
                        (CHOOSE p \in FileLineKeys :
                            p.file = uploaded_files_list[i]).keys])

\* peaks 5 and 3 of b.txt, the failed c.csv, then peaks 3 and 5 of a.csv
C15_Witness ==
    /\ view = "results"
    /\ uploaded_files_list = <<FileB, FileC, FileA>>
    /\ Len(combined_df.rows) = 4
    /\ Cell(combined_df, combined_df.rows[1], ColSample) = Str(<<"b">>)
    /\ Cell(combined_df, combined_df.rows[1], ColPeak) = Decimal(5, 0)
    /\ Cell(combined_df, combined_df.rows[2], ColPeak) = Decimal(3, 0)
    /\ Cell(combined_df, combined_df.rows[3], ColSample) = Str(<<"a">>)
    /\ Cell(combined_df, combined_df.rows[3], ColPeak) = Decimal(3, 0)
    /\ Cell(combined_df, combined_df.rows[4], ColPeak) = Decimal(5, 0)

\* C16: after every click, analysis_complete is TRUE only with 1 to
\* MaxFiles files in uploaded_files_list; Clear Data leaves the flag FALSE
\* and the list empty; an Analyze with no file or with more than MaxFiles
\* files leaves the flag and the list as they were; and a run in which
\* every file fails leaves the flag FALSE
C16_SessionState ==
    [][/\ analysis_complete' =>
             (Len(uploaded_files_list') >= 1 /\ Len(uploaded_files_list') <= MaxFiles)
       /\ button' = "clear" =>
             (~analysis_complete' /\ uploaded_files_list' = <<>>)
       /\ (button' = "analyze"
             /\ (uploaded_files' = <<>> \/ Len(uploaded_files') > MaxFiles))
          => /\ analysis_complete' = analysis_complete
             /\ uploaded_files_list' = uploaded_files_list
       /\ view' = "empty_batch" => ~analysis_complete']_vars

\* Clear Data clicked with more than MaxFiles files still in the uploader
C16_Witness ==
    /\ button = "clear"
    /\ Len(uploaded_files) = MaxFiles + 1
    /\ ~analysis_complete
    /\ uploaded_files_list = <<>>
    /\ view = "info"

====
